---- MODULE Spec2Model ----
(***************************************************************************)
(* The M/M/1 benchmark of cimba: benchmark/MM1_multi.py (and its single-   *)
(* trial twin MM1_single.py).  One trial is a simpy Environment with a     *)
(* Store and two generator processes; main() maps run_trial over a process *)
(* pool and aggregates the results.                                        *)
(*                                                                         *)
(* The simpy calls of the source (env.process, env.timeout, store.put,     *)
(* store.get, env.run) are modelled by what simpy does at those call       *)
(* sites: an event heap ordered by (time, priority, event id), events      *)
(* whose callbacks run when the event is popped, and generators resumed    *)
(* by those callbacks.  random.expovariate is a nondeterministic draw      *)
(* from Durations (the rates are taken positive, so every draw is >= 0);  *)
(* float arithmetic is modelled by exact integers, and a quotient          *)
(* sum_tsys / obj_cnt by the pair <<sum_tsys, obj_cnt>>.                   *)
(*                                                                         *)
(* Spec and FairSpec run one trial; PoolSpec runs main() with several      *)
(* trials interleaved on the pool's workers.                               *)
(***************************************************************************)
EXTENDS Integers, Sequences, FiniteSets, TLC

\* Bounds of the model.
MaxN == 3          \* n_objects of a single trial ranges over 0..MaxN
MaxDur == 1        \* a drawn duration ranges over 0..MaxDur
MaxTrials == 2     \* the number of trials of a pool run ranges over 0..MaxTrials
MaxCores == 2      \* multiprocessing.cpu_count() ranges over 1..MaxCores
PoolMaxN == 2      \* n_objects of a pool run ranges over 0..PoolMaxN

\* simpy's scheduling priorities: Initialize events are URGENT, all others NORMAL.
URGENT == 0
NORMAL == 1

Trials == 1..MaxTrials
Durations == 0..MaxDur
Procs == {"arrival", "service"}

VARIABLES
    n_objects,   \* args[0] of every trial (NUM_OBJECTS)
    num_trials,  \* len(trl_args) (NUM_TRIALS)
    num_cores,   \* multiprocessing.cpu_count()
    mpc,         \* position of main()
    results,     \* the list pool.map returned
    report,      \* what main() printed: <<>> or <<n>>
    tpc,         \* per trial: position of run_trial
    now,         \* per trial: env.now
    queue,       \* per trial: env._queue, a set of event records
    eid,         \* per trial: env._eid, the next event id
    items,       \* per trial: store.items
    get_queue,   \* per trial: store.get_queue, the untriggered get events
    cbs,         \* per trial: callbacks of the popped event still to be called
    evval,       \* per trial: value of the popped event
    running,     \* per trial: the generators currently executing
    apc,         \* per trial: suspension point of arrival_process
    spc,         \* per trial: suspension point of service_process
    iter,        \* per trial: iterations of arrival_process's for loop begun
    arr_time,    \* per trial: service_process's local arr_time
    stats,       \* per trial: the stats dict
    ret,         \* per trial: what run_trial returned, <<sum_tsys, obj_cnt>>
    putLog,      \* history: the records put, in order
    getLog,      \* history: the records store.get() returned, in order
    doneLog,     \* history: the records whose service completed, in order
    compLog,     \* history: env.now at each service completion, in order
    draws        \* history: the values random.expovariate returned, in order,
                 \*          each with the process that drew it

mainVars == <<n_objects, num_trials, num_cores, mpc, results, report>>
envVars == <<now, queue, eid, cbs, evval>>
storeVars == <<items, get_queue>>
procVars == <<running, apc, spc, iter, arr_time, stats>>
histVars == <<putLog, getLog, doneLog, compLog, draws>>
trialVars == <<tpc, ret>>
vars == <<mainVars, envVars, storeVars, procVars, histVars, trialVars>>

NoItem == [t |-> 0, k |-> 0]

----------------------------------------------------------------------------
\* simpy.Environment: the event heap.

\* Mutant: the heap entries carry no event id, so entries with equal time and
\* priority are in no particular order.
BeforeNoEid(e, f) ==
    \/ e.time < f.time
    \/ e.time = f.time /\ e.prio < f.prio
    \/ e.time = f.time /\ e.prio = f.prio

\* Mutant: among entries with equal time and priority the newest comes first.
BeforeLifo(e, f) ==
    \/ e.time < f.time
    \/ e.time = f.time /\ e.prio < f.prio
    \/ e.time = f.time /\ e.prio = f.prio /\ e.eid >= f.eid

\* heapq order of the (time, priority, eid, event) tuples.
Before(e, f) ==
    \/ e.time < f.time
    \/ e.time = f.time /\ e.prio < f.prio
    \/ e.time = f.time /\ e.prio = f.prio /\ e.eid <= f.eid

\* heappop(self._queue): the entries no other entry precedes.  Event ids are
\* unique, so the order is total and this is the one least entry.
HeapMin(q) == {e \in q : \A f \in q : Before(e, f)}

\* Mutant: the event is pushed at the delay itself instead of now + delay.
ScheduleAbs(q, id, tnow, prio, delay, kind, proc, val) ==
    q \cup {[time |-> delay, prio |-> prio, eid |-> id,
             kind |-> kind, proc |-> proc, val |-> val]}

\* env.schedule(event, priority, delay): heappush at now + delay with the next eid.
Schedule(q, id, tnow, prio, delay, kind, proc, val) ==
    q \cup {[time |-> tnow + delay, prio |-> prio, eid |-> id,
             kind |-> kind, proc |-> proc, val |-> val]}

\* Mutant: a put event does not carry Store._trigger_get, so a put wakes no getter.
CallbacksNoTrigger(e) ==
    CASE e.kind = "Initialize" -> <<e.proc>>
      [] e.kind = "Timeout"    -> <<e.proc>>
      [] e.kind = "StorePut"   -> <<e.proc>>
      [] e.kind = "StoreGet"   -> <<"_trigger_put", e.proc>>
      [] e.kind = "Process"    -> <<>>

\* The callbacks an event carries when it is popped.
Callbacks(e) ==
    CASE e.kind = "Initialize" -> <<e.proc>>
      [] e.kind = "Timeout"    -> <<e.proc>>
      [] e.kind = "StorePut"   -> <<"_trigger_get", e.proc>>
      [] e.kind = "StoreGet"   -> <<"_trigger_put", e.proc>>
      [] e.kind = "Process"    -> <<>>

\* Mutant: the item handed out stays in store.items.
DoGetRestKeep(its) == its

\* Store._do_get: event.succeed(self.items.pop(0)).
DoGetItem(its) == Head(its)
DoGetRest(its) == Tail(its)

\* Mutant: the newest item is handed out (items.pop() instead of items.pop(0)).
TrigGetLifo(gq, its, q, id, tnow) ==
    IF gq # <<>> /\ its # <<>>
    THEN [gq    |-> Tail(gq),
          items |-> SubSeq(its, 1, Len(its) - 1),
          queue |-> Schedule(q, id, tnow, NORMAL, 0, "StoreGet", Head(gq),
                             <<its[Len(its)]>>),
          eid   |-> id + 1]
    ELSE [gq |-> gq, items |-> its, queue |-> q, eid |-> id]

\* Mutant: a waiting get event succeeds even when the store is empty.
TrigGetEmpty(gq, its, q, id, tnow) ==
    IF gq # <<>>
    THEN [gq    |-> Tail(gq),
          items |-> IF its # <<>> THEN Tail(its) ELSE its,
          queue |-> Schedule(q, id, tnow, NORMAL, 0, "StoreGet", Head(gq),
                             <<IF its # <<>> THEN Head(its) ELSE NoItem>>),
          eid   |-> id + 1]
    ELSE [gq |-> gq, items |-> its, queue |-> q, eid |-> id]

\* Store._trigger_get: the first waiting get event is offered the oldest item;
\* when it takes one it succeeds, which schedules it at the current time.
TrigGet(gq, its, q, id, tnow) ==
    IF gq # <<>> /\ its # <<>>
    THEN [gq    |-> Tail(gq),
          items |-> DoGetRest(its),
          queue |-> Schedule(q, id, tnow, NORMAL, 0, "StoreGet", Head(gq),
                             <<DoGetItem(its)>>),
          eid   |-> id + 1]
    ELSE [gq |-> gq, items |-> its, queue |-> q, eid |-> id]

\* Mutant: the next event is popped as soon as the callback list is empty, while
\* the generator the last callback entered is still executing.
StepGuardCallbacks(t) == cbs[t] = <<>>

\* Environment.step pops the next event only from the run loop, that is when
\* every callback of the previous event has returned.
StepGuard(t) == cbs[t] = <<>> /\ running[t] = {}

\* Mutant: run() ends only when, besides the heap being empty, no process waits
\* on the store.
EmptyScheduleIdle(t) == queue[t] = {} /\ get_queue[t] = <<>>

\* Mutant: run() ends as soon as the arrival process has ended.
EmptyScheduleArrivalDone(t) == apc[t] = "done"

\* env.run() ends when Environment.step finds the heap empty and raises
\* EmptySchedule; a process still waiting on the store does not keep run() going.
EmptySchedule(t) == queue[t] = {}

\* Mutant: the for loop runs one iteration too many.
MoreArrivalsInclusive(t) == iter[t] <= n_objects

\* for _ in range(n_limit): another iteration follows.
MoreArrivals(t) == iter[t] < n_objects

\* Mutant: the operands of the subtraction are swapped.
SojournSwapped(tnow, arr) == arr - tnow

\* Mutant: the arrival time is not subtracted.
SojournNoArrival(tnow, arr) == tnow

\* stats['sum_tsys'] += env.now - arr_time
Sojourn(tnow, arr) == tnow - arr

\* Mutant: a customer whose sojourn time is zero is not counted.
StatsAddSkipZero(st, soj) ==
    [sum_tsys |-> st.sum_tsys + soj,
     obj_cnt  |-> IF soj > 0 THEN st.obj_cnt + 1 ELSE st.obj_cnt]

\* stats['sum_tsys'] += ...; stats['obj_cnt'] += 1
StatsAdd(st, soj) == [sum_tsys |-> st.sum_tsys + soj, obj_cnt |-> st.obj_cnt + 1]

\* r > 0 for a result r = sum_tsys / obj_cnt, kept as the pair <<sum_tsys, obj_cnt>>.
Positive(r) == r[1] > 0 /\ r[2] > 0

\* The trials a pool worker is busy with.
Busy == {t \in Trials : tpc[t] \in {"run", "ran"}}

----------------------------------------------------------------------------
\* The state before main() runs, whatever the configuration.
Fresh ==
    /\ mpc = "start"
    /\ results = <<>>
    /\ report = <<>>
    /\ tpc = [t \in Trials |-> "none"]
    /\ now = [t \in Trials |-> 0]
    /\ queue = [t \in Trials |-> {}]
    /\ eid = [t \in Trials |-> 0]
    /\ items = [t \in Trials |-> <<>>]
    /\ get_queue = [t \in Trials |-> <<>>]
    /\ cbs = [t \in Trials |-> <<>>]
    /\ evval = [t \in Trials |-> <<>>]
    /\ running = [t \in Trials |-> {}]
    /\ apc = [t \in Trials |-> "new"]
    /\ spc = [t \in Trials |-> "new"]
    /\ iter = [t \in Trials |-> 0]
    /\ arr_time = [t \in Trials |-> NoItem]
    /\ stats = [t \in Trials |-> [sum_tsys |-> 0, obj_cnt |-> 0]]
    /\ ret = [t \in Trials |-> <<>>]
    /\ putLog = [t \in Trials |-> <<>>]
    /\ getLog = [t \in Trials |-> <<>>]
    /\ doneLog = [t \in Trials |-> <<>>]
    /\ compLog = [t \in Trials |-> <<>>]
    /\ draws = [t \in Trials |-> <<>>]

\* One trial on one worker: run_trial(n_objects, ...) for every n_objects up to MaxN.
Init ==
    /\ n_objects \in 0..MaxN
    /\ num_trials = 1
    /\ num_cores = 1
    /\ Fresh

\* main() with up to MaxTrials trials on a pool of up to MaxCores workers.
PoolInit ==
    /\ n_objects \in 0..PoolMaxN
    /\ num_trials \in 0..MaxTrials
    /\ num_cores \in 1..MaxCores
    /\ Fresh

\* main(): the pool is created and pool.map submits one task per entry of trl_args.
MainStart ==
    /\ mpc = "start"
    /\ mpc' = "map"
    /\ tpc' = [t \in Trials |-> IF t <= num_trials THEN "queued" ELSE "none"]
    /\ UNCHANGED <<n_objects, num_trials, num_cores, results, report>>
    /\ UNCHANGED <<envVars, storeVars, procVars, histVars, ret>>

\* A free worker takes the next task and runs run_trial up to the call of env.run():
\* a new Environment, Store and stats, and the two processes, each scheduling its
\* Initialize event at time 0.
StartTrial(t) ==
    /\ mpc = "map"
    /\ tpc[t] = "queued"
    /\ \A u \in Trials : u < t => tpc[u] # "queued"
    /\ Cardinality(Busy) < num_cores
    /\ tpc' = [tpc EXCEPT ![t] = "run"]
    /\ now' = [now EXCEPT ![t] = 0]
    /\ queue' = [queue EXCEPT ![t] =
                    Schedule(Schedule({}, 0, 0, URGENT, 0, "Initialize", "arrival", <<>>),
                             1, 0, URGENT, 0, "Initialize", "service", <<>>)]
    /\ eid' = [eid EXCEPT ![t] = 2]
    /\ stats' = [stats EXCEPT ![t] = [sum_tsys |-> 0, obj_cnt |-> 0]]
    /\ UNCHANGED <<mainVars, cbs, evval, storeVars, running, apc, spc, iter, arr_time,
                   histVars, ret>>

\* Environment.step: pop the least event, set the clock to its time and take its
\* callbacks.
Step(t) ==
    /\ tpc[t] = "run"
    /\ StepGuard(t)
    /\ queue[t] # {}
    /\ \E e \in HeapMin(queue[t]) :
        /\ now' = [now EXCEPT ![t] = e.time]
        /\ queue' = [queue EXCEPT ![t] = queue[t] \ {e}]
        /\ cbs' = [cbs EXCEPT ![t] = Callbacks(e)]
        /\ evval' = [evval EXCEPT ![t] = e.val]
    /\ UNCHANGED <<mainVars, eid, storeVars, procVars, histVars, trialVars>>

\* The callback Store._trigger_get of a put event.
TriggerGet(t) ==
    /\ tpc[t] = "run"
    /\ cbs[t] # <<>> /\ Head(cbs[t]) = "_trigger_get"
    /\ running[t] = {}
    /\ LET r == TrigGet(get_queue[t], items[t], queue[t], eid[t], now[t]) IN
        /\ get_queue' = [get_queue EXCEPT ![t] = r.gq]
        /\ items' = [items EXCEPT ![t] = r.items]
        /\ queue' = [queue EXCEPT ![t] = r.queue]
        /\ eid' = [eid EXCEPT ![t] = r.eid]
    /\ cbs' = [cbs EXCEPT ![t] = Tail(cbs[t])]
    /\ UNCHANGED <<mainVars, now, evval, procVars, histVars, trialVars>>

\* The callback Store._trigger_put of a get event: the store is unbounded, so every
\* put succeeded when it was made and no put event is waiting.
TriggerPut(t) ==
    /\ tpc[t] = "run"
    /\ cbs[t] # <<>> /\ Head(cbs[t]) = "_trigger_put"
    /\ running[t] = {}
    /\ cbs' = [cbs EXCEPT ![t] = Tail(cbs[t])]
    /\ UNCHANGED <<mainVars, now, queue, eid, evval, storeVars, procVars, histVars,
                   trialVars>>

\* The callback Process._resume: the generator is entered.
Resume(t) ==
    /\ tpc[t] = "run"
    /\ cbs[t] # <<>> /\ Head(cbs[t]) \in Procs
    /\ running' = [running EXCEPT ![t] = running[t] \cup {Head(cbs[t])}]
    /\ cbs' = [cbs EXCEPT ![t] = Tail(cbs[t])]
    /\ UNCHANGED <<mainVars, now, queue, eid, evval, storeVars, apc, spc, iter,
                   arr_time, stats, histVars, trialVars>>

----------------------------------------------------------------------------
\* arrival_process, from its start or from `yield store.put(env.now)`: the next
\* iteration of the for loop draws t and yields env.timeout(t).
ArrivalDraw(t) ==
    /\ "arrival" \in running[t]
    /\ apc[t] \in {"new", "put"}
    /\ MoreArrivals(t)
    /\ \E d \in Durations :
        /\ queue' = [queue EXCEPT ![t] =
                    Schedule(queue[t], eid[t], now[t], NORMAL, d, "Timeout", "arrival", <<>>)]
        /\ draws' = [draws EXCEPT ![t] = Append(draws[t], [p |-> "arrival", d |-> d])]
    /\ eid' = [eid EXCEPT ![t] = eid[t] + 1]
    /\ iter' = [iter EXCEPT ![t] = iter[t] + 1]
    /\ apc' = [apc EXCEPT ![t] = "timeout"]
    /\ running' = [running EXCEPT ![t] = running[t] \ {"arrival"}]
    /\ UNCHANGED <<mainVars, now, cbs, evval, storeVars, spc, arr_time, stats,
                   putLog, getLog, doneLog, compLog, trialVars>>

\* arrival_process when range(n_limit) is exhausted: the generator returns and
\* the Process event of the arrival process is scheduled.
ArrivalExit(t) ==
    /\ "arrival" \in running[t]
    /\ apc[t] \in {"new", "put"}
    /\ ~MoreArrivals(t)
    /\ queue' = [queue EXCEPT ![t] =
                    Schedule(queue[t], eid[t], now[t], NORMAL, 0, "Process", "arrival", <<>>)]
    /\ eid' = [eid EXCEPT ![t] = eid[t] + 1]
    /\ apc' = [apc EXCEPT ![t] = "done"]
    /\ running' = [running EXCEPT ![t] = running[t] \ {"arrival"}]
    /\ UNCHANGED <<mainVars, now, cbs, evval, storeVars, spc, iter, arr_time, stats,
                   histVars, trialVars>>

\* arrival_process resumed from `yield env.timeout(t)`: store.put(env.now) appends
\* the record to store.items (the store is unbounded) and the put event succeeds,
\* scheduled at the current time.  The field k is the ordinal of the put; the code
\* does not read it.
ArrivalPut(t) ==
    /\ "arrival" \in running[t]
    /\ apc[t] = "timeout"
    /\ LET rec == [t |-> now[t], k |-> iter[t]] IN
        /\ items' = [items EXCEPT ![t] = Append(items[t], rec)]
        /\ putLog' = [putLog EXCEPT ![t] = Append(putLog[t], rec)]
    /\ queue' = [queue EXCEPT ![t] =
                    Schedule(queue[t], eid[t], now[t], NORMAL, 0, "StorePut", "arrival", <<>>)]
    /\ eid' = [eid EXCEPT ![t] = eid[t] + 1]
    /\ apc' = [apc EXCEPT ![t] = "put"]
    /\ running' = [running EXCEPT ![t] = running[t] \ {"arrival"}]
    /\ UNCHANGED <<mainVars, now, cbs, evval, get_queue, spc, iter, arr_time, stats,
                   getLog, doneLog, compLog, draws, trialVars>>

\* service_process from its start: `yield store.get()`.  The get event joins
\* store.get_queue and Store._trigger_get runs at once.
ServiceGet(t) ==
    /\ "service" \in running[t]
    /\ spc[t] = "new"
    /\ LET r == TrigGet(Append(get_queue[t], "service"), items[t], queue[t], eid[t],
                        now[t]) IN
        /\ get_queue' = [get_queue EXCEPT ![t] = r.gq]
        /\ items' = [items EXCEPT ![t] = r.items]
        /\ queue' = [queue EXCEPT ![t] = r.queue]
        /\ eid' = [eid EXCEPT ![t] = r.eid]
    /\ spc' = [spc EXCEPT ![t] = "get"]
    /\ running' = [running EXCEPT ![t] = running[t] \ {"service"}]
    /\ UNCHANGED <<mainVars, now, cbs, evval, apc, iter, arr_time, stats, histVars,
                   trialVars>>

\* service_process resumed from `arr_time = yield store.get()`: draws t and yields
\* env.timeout(t).
ServiceDraw(t) ==
    /\ "service" \in running[t]
    /\ spc[t] = "get"
    /\ arr_time' = [arr_time EXCEPT ![t] = evval[t][1]]
    /\ getLog' = [getLog EXCEPT ![t] = Append(getLog[t], evval[t][1])]
    /\ \E d \in Durations :
        /\ queue' = [queue EXCEPT ![t] =
                    Schedule(queue[t], eid[t], now[t], NORMAL, d, "Timeout", "service", <<>>)]
        /\ draws' = [draws EXCEPT ![t] = Append(draws[t], [p |-> "service", d |-> d])]
    /\ eid' = [eid EXCEPT ![t] = eid[t] + 1]
    /\ spc' = [spc EXCEPT ![t] = "timeout"]
    /\ running' = [running EXCEPT ![t] = running[t] \ {"service"}]
    /\ UNCHANGED <<mainVars, now, cbs, evval, storeVars, apc, iter, stats, putLog,
                   doneLog, compLog, trialVars>>

\* Mutant: the statistics are one object shared by all trials, so a service
\* completion in one trial is added to the statistics of every trial.
ServiceDoneShared(t) ==
    /\ "service" \in running[t]
    /\ spc[t] = "timeout"
    /\ stats' = [u \in Trials |->
                    StatsAdd(stats[u], Sojourn(now[t], arr_time[t].t))]
    /\ doneLog' = [doneLog EXCEPT ![t] = Append(doneLog[t], arr_time[t])]
    /\ compLog' = [compLog EXCEPT ![t] = Append(compLog[t], now[t])]
    /\ LET r == TrigGet(Append(get_queue[t], "service"), items[t], queue[t], eid[t],
                        now[t]) IN
        /\ get_queue' = [get_queue EXCEPT ![t] = r.gq]
        /\ items' = [items EXCEPT ![t] = r.items]
        /\ queue' = [queue EXCEPT ![t] = r.queue]
        /\ eid' = [eid EXCEPT ![t] = r.eid]
    /\ spc' = [spc EXCEPT ![t] = "get"]
    /\ running' = [running EXCEPT ![t] = running[t] \ {"service"}]
    /\ UNCHANGED <<mainVars, now, cbs, evval, apc, iter, arr_time, putLog, getLog,
                   draws, trialVars>>

\* service_process resumed from `yield env.timeout(t)`: the statistics are updated
\* and the loop comes round to `yield store.get()`.
ServiceDone(t) ==
    /\ "service" \in running[t]
    /\ spc[t] = "timeout"
    /\ stats' = [stats EXCEPT ![t] = StatsAdd(stats[t], Sojourn(now[t], arr_time[t].t))]
    /\ doneLog' = [doneLog EXCEPT ![t] = Append(doneLog[t], arr_time[t])]
    /\ compLog' = [compLog EXCEPT ![t] = Append(compLog[t], now[t])]
    /\ LET r == TrigGet(Append(get_queue[t], "service"), items[t], queue[t], eid[t],
                        now[t]) IN
        /\ get_queue' = [get_queue EXCEPT ![t] = r.gq]
        /\ items' = [items EXCEPT ![t] = r.items]
        /\ queue' = [queue EXCEPT ![t] = r.queue]
        /\ eid' = [eid EXCEPT ![t] = r.eid]
    /\ spc' = [spc EXCEPT ![t] = "get"]
    /\ running' = [running EXCEPT ![t] = running[t] \ {"service"}]
    /\ UNCHANGED <<mainVars, now, cbs, evval, apc, iter, arr_time, putLog, getLog,
                   draws, trialVars>>

----------------------------------------------------------------------------
\* env.run(): Environment.step finds the heap empty (EmptySchedule) and run()
\* returns.
EnvRunReturns(t) ==
    /\ tpc[t] = "run"
    /\ StepGuard(t)
    /\ EmptySchedule(t)
    /\ tpc' = [tpc EXCEPT ![t] = "ran"]
    /\ UNCHANGED <<mainVars, envVars, storeVars, procVars, histVars, ret>>

\* return stats['sum_tsys'] / stats['obj_cnt']: the quotient, or ZeroDivisionError
\* when obj_cnt is 0.
TrialReturn(t) ==
    /\ tpc[t] = "ran"
    /\ IF stats[t].obj_cnt = 0
       THEN /\ tpc' = [tpc EXCEPT ![t] = "raised"]
            /\ ret' = ret
       ELSE /\ tpc' = [tpc EXCEPT ![t] = "returned"]
            /\ ret' = [ret EXCEPT ![t] = <<stats[t].sum_tsys, stats[t].obj_cnt>>]
    /\ UNCHANGED <<mainVars, envVars, storeVars, procVars, histVars>>

\* Mutant: the map returns as soon as one task has finished.
AnyTaskDone ==
    num_trials = 0 \/ \E t \in 1..num_trials : tpc[t] \in {"returned", "raised"}

\* pool.map blocks until every submitted task has finished.
AllTasksDone == \A t \in 1..num_trials : tpc[t] \in {"returned", "raised"}

\* pool.map returns when every task has finished: the list of results in task
\* order, or the exception of a task that raised, which leaves main().
MapReturn ==
    /\ mpc = "map"
    /\ AllTasksDone
    /\ IF \E t \in 1..num_trials : tpc[t] = "raised"
       THEN /\ mpc' = "raised"
            /\ results' = results
       ELSE /\ mpc' = "collected"
            /\ results' = [t \in 1..num_trials |-> ret[t]]
    /\ UNCHANGED <<n_objects, num_trials, num_cores, report>>
    /\ UNCHANGED <<envVars, storeVars, procVars, histVars, trialVars>>

\* valid_results = [r for r in results if r > 0]
ValidResults(rs) == SelectSeq(rs, Positive)

\* main() after pool.map: filter, count, and print the line only if n > 1.
Aggregate ==
    /\ mpc = "collected"
    /\ LET n == Len(ValidResults(results)) IN
        report' = IF n > 1 THEN <<n>> ELSE <<>>
    /\ mpc' = "done"
    /\ UNCHANGED <<n_objects, num_trials, num_cores, results>>
    /\ UNCHANGED <<envVars, storeVars, procVars, histVars, trialVars>>

TrialNext(t) ==
    \/ StartTrial(t)
    \/ Step(t)
    \/ TriggerGet(t)
    \/ TriggerPut(t)
    \/ Resume(t)
    \/ ArrivalDraw(t)
    \/ ArrivalExit(t)
    \/ ArrivalPut(t)
    \/ ServiceGet(t)
    \/ ServiceDraw(t)
    \/ ServiceDone(t)
    \/ EnvRunReturns(t)
    \/ TrialReturn(t)

Next ==
    \/ MainStart
    \/ \E t \in Trials : TrialNext(t)
    \/ MapReturn
    \/ Aggregate

Spec == Init /\ [][Next]_vars

\* The interpreter and the pool's workers keep running: a step that stays
\* possible is eventually taken.
FairSpec == Init /\ [][Next]_vars /\ WF_vars(Next)

PoolSpec == PoolInit /\ [][Next]_vars

----------------------------------------------------------------------------
\* Properties.

\* env.run() of trial t has returned.
Finished(t) == tpc[t] \in {"ran", "returned", "raised"}

\* The state of one trial.
TrialState(t) ==
    <<tpc[t], now[t], queue[t], eid[t], items[t], get_queue[t], cbs[t], evval[t],
      running[t], apc[t], spc[t], iter[t], arr_time[t], stats[t], ret[t]>>

\* C1: for a trial with n_objects >= 1, once env.run() has returned,
\* stats['obj_cnt'] equals n_objects: every arrival was put, every record put was
\* returned by a get, and the service of every one of them completed.
C1_AllArrivalsServiced ==
    \A t \in Trials :
        (Finished(t) /\ n_objects >= 1) =>
            /\ stats[t].obj_cnt = n_objects
            /\ Len(putLog[t]) = n_objects
            /\ getLog[t] = putLog[t]
            /\ doneLog[t] = putLog[t]

C1_Witness ==
    \E t \in Trials : tpc[t] = "ran" /\ n_objects >= 2 /\ stats[t].obj_cnt = n_objects

\* C2: the records store.get() returns to service_process are, in order, the
\* records arrival_process put: the i-th record returned is the i-th record put.
C2_ChannelFifo ==
    \A t \in Trials :
        /\ Len(getLog[t]) <= Len(putLog[t])
        /\ \A i \in 1..Len(getLog[t]) : getLog[t][i] = putLog[t][i]

\* Two records wait in the store while an earlier one has been returned.
C2_Witness ==
    \E t \in Trials : Len(items[t]) >= 2 /\ Len(getLog[t]) >= 1

\* C3: no record is returned by two get() calls, and once env.run() has returned
\* every record put has been returned by a get().
C3_ConsumedExactlyOnce ==
    \A t \in Trials :
        /\ \A i, j \in 1..Len(getLog[t]) : i # j => getLog[t][i].k # getLog[t][j].k
        /\ Finished(t) =>
              \A i \in 1..Len(putLog[t]) :
                  \E j \in 1..Len(getLog[t]) : getLog[t][j] = putLog[t][i]

C3_Witness ==
    \E t \in Trials : tpc[t] = "ran" /\ Len(getLog[t]) >= 2 /\ items[t] = <<>>

\* C4: env.now never decreases: every event is dispatched at a time >= the time
\* of the event dispatched before it.
C4_TimeNonDecreasing ==
    [][\A t \in Trials : now'[t] >= now[t]]_vars

\* The clock has advanced twice.
C4_Witness ==
    \E t \in Trials : now[t] >= 2 /\ tpc[t] = "run"

\* C5: env.run() of every trial returns, with the event heap empty, although
\* service_process never ends.
C5_RunTerminates ==
    <>(\A t \in 1..num_trials : Finished(t) /\ queue[t] = {})

\* run() has returned while service_process still waits in store.get().
C5_Witness ==
    \E t \in Trials :
        /\ tpc[t] = "ran" /\ n_objects >= 1
        /\ spc[t] = "get" /\ get_queue[t] = <<"service">>

\* C6: at most one of the two processes executes at any instant; while one
\* executes the scheduler dispatches nothing, and the next step of the trial is
\* that process suspending; the store gains a record only in a step of the
\* arrival process and the statistics change only in a step of the service process.
C6_OneProcessRuns ==
    [][\A t \in Trials :
          /\ Cardinality(running[t]) <= 1
          /\ Cardinality(running'[t]) <= 1
          /\ (running[t] # {} /\ TrialState(t)' # TrialState(t)) =>
                (running'[t] = {} /\ now'[t] = now[t] /\ cbs'[t] = cbs[t])
          /\ Len(items'[t]) > Len(items[t]) => running[t] = {"arrival"}
          /\ stats'[t] # stats[t] => running[t] = {"service"}]_vars

\* The service process executes while the arrival process waits on its timer.
C6_Witness ==
    \E t \in Trials : running[t] = {"service"} /\ apc[t] = "timeout" /\ spc[t] = "timeout"

\* What the specification calls the degenerate sentinel: a result that is no quotient.
Sentinel == <<0, 0>>

\* C7: run_trial returns sum_tsys / obj_cnt when obj_cnt > 0 and returns the
\* sentinel, not an error, when obj_cnt = 0.
C7_SentinelOnZeroCount ==
    \A t \in Trials :
        tpc[t] \in {"returned", "raised"} =>
            /\ tpc[t] = "returned"
            /\ ret[t] = IF stats[t].obj_cnt > 0
                        THEN <<stats[t].sum_tsys, stats[t].obj_cnt>>
                        ELSE Sentinel

\* C8: when main() ends with fewer than 2 valid results it has surfaced an
\* insufficient-data condition and printed no confidence interval.
C8_InsufficientDataSurfaced ==
    (mpc \in {"done", "insufficient"} /\ Len(ValidResults(results)) < 2) =>
        (mpc = "insufficient" /\ report = <<>>)

\* C9: a trial that completes with zero finished customers does not abort the
\* experiment: main() is not left by an exception.
C9_DegenerateTolerated ==
    (\E t \in 1..num_trials : Finished(t) /\ stats[t].obj_cnt = 0) => mpc # "raised"

\* C10: with n_objects <= 0 or no trials, no trial is handed to a worker, no
\* event is scheduled and no process runs, and main() does not go on to aggregate.
C10_InvalidParameterRejected ==
    (n_objects <= 0 \/ num_trials <= 0) =>
        /\ mpc \notin {"collected", "done"}
        /\ \A t \in Trials :
              tpc[t] \in {"none", "queued"} /\ eid[t] = 0 /\ running[t] = {}

\* C11: when main() starts to filter and aggregate, every dispatched trial has
\* returned and the list collected holds one result per trial, the result of
\* that trial, whatever the order in which the workers finished.
C11_AggregateAfterJoin ==
    mpc \in {"collected", "done"} =>
        /\ Len(results) = num_trials
        /\ \A t \in 1..num_trials :
              tpc[t] = "returned" /\ ret[t] # <<>> /\ results[t] = ret[t]

\* Two trials with different results have been collected.
C11_Witness ==
    mpc = "collected" /\ num_trials = 2 /\ results[1] # results[2]

\* The durations drawn in trial t: all of them in the order drawn, those the
\* arrival process drew (a_1, a_2, ...) and those the service process drew
\* (s_1, s_2, ...).
IsArrivalDraw(x) == x.p = "arrival"
IsServiceDraw(x) == x.p = "service"
Durs(ds) == [i \in 1..Len(ds) |-> ds[i].d]
Stream(t) == Durs(draws[t])
ADur(t) == Durs(SelectSeq(draws[t], IsArrivalDraw))
SDur(t) == Durs(SelectSeq(draws[t], IsServiceDraw))

\* The single-server FIFO queue: A_k = a_1 + ... + a_k, D_0 = 0,
\* D_k = max(A_k, D_{k-1}) + s_k, and the sum of D_k - A_k over k = 1..n.
RECURSIVE ArrTime(_, _)
ArrTime(a, k) == IF k = 0 THEN 0 ELSE ArrTime(a, k - 1) + a[k]

RECURSIVE DepTime(_, _, _)
DepTime(a, s, k) ==
    IF k = 0 THEN 0
    ELSE LET prev == DepTime(a, s, k - 1)
             arr == ArrTime(a, k)
         IN (IF arr >= prev THEN arr ELSE prev) + s[k]

RECURSIVE LindleySum(_, _, _)
LindleySum(a, s, n) ==
    IF n = 0 THEN 0
    ELSE LindleySum(a, s, n - 1) + (DepTime(a, s, n) - ArrTime(a, n))

\* The scheduler, channel, processes and statistics of one trial.
TrialOwned(t) ==
    <<now[t], queue[t], eid[t], items[t], get_queue[t], cbs[t], evval[t],
      running[t], apc[t], spc[t], iter[t], arr_time[t], stats[t]>>

\* C12: a step that changes the scheduler, channel, processes or statistics of
\* one trial leaves those of every other trial as they were, and under every
\* interleaving a trial returns the result its own durations give when it runs
\* alone: the single-server FIFO sum over its own draws, with n_objects customers.
C12_TrialsIsolated ==
    /\ [](\A t \in 1..num_trials :
            tpc[t] = "returned" =>
                ret[t] = <<LindleySum(ADur(t), SDur(t), n_objects), n_objects>>)
    /\ [][\A t, u \in Trials :
            (t # u /\ TrialOwned(u)' # TrialOwned(u)) =>
                TrialOwned(t)' = TrialOwned(t)]_vars

\* Two trials are in the middle of their runs at once, at different virtual times.
C12_Witness ==
    /\ tpc[1] = "run" /\ tpc[2] = "run"
    /\ stats[1].obj_cnt >= 1 /\ stats[2].obj_cnt >= 1
    /\ now[1] # now[2]

\* C13: the scheduler never has a choice, exactly one pending event is the next
\* to be dispatched; and two runs of a trial with the same n_objects that are
\* served the same sequence of random draws end with the same count and the
\* same sum of sojourn times, and return the same result.
C13_Deterministic ==
    /\ \A t \in Trials : queue[t] # {} => Cardinality(HeapMin(queue[t])) = 1
    /\ \A t, u \in 1..num_trials :
          (Finished(t) /\ Finished(u) /\ Stream(t) = Stream(u)) =>
              /\ stats[t] = stats[u]
              /\ (tpc[t] # "ran" /\ tpc[u] # "ran") => (tpc[t] = tpc[u] /\ ret[t] = ret[u])

\* Two trials have returned after the same draws, some of them positive.
C13_Witness ==
    /\ num_trials = 2 /\ tpc[1] = "returned" /\ tpc[2] = "returned"
    /\ Stream(1) = Stream(2) /\ stats[1].sum_tsys >= 2

\* C14 as stated: for n_objects >= 1, once env.run() has returned
\* stats['sum_tsys'] is strictly positive.
C14_SumPositive ==
    \A t \in Trials : (Finished(t) /\ n_objects >= 1) => stats[t].sum_tsys > 0

\* C14 as amended: for n_objects >= 1, once env.run() has returned
\* stats['sum_tsys'] is not negative, and it is strictly positive exactly when
\* the service of some customer completed later than that customer arrived.
C14_SumNonNegative ==
    \A t \in Trials :
        (Finished(t) /\ n_objects >= 1) =>
            /\ stats[t].sum_tsys >= 0
            /\ stats[t].sum_tsys > 0 <=>
                  \E k \in 1..Len(compLog[t]) : compLog[t][k] > doneLog[t][k].t

\* A trial has ended with a positive sum although one customer spent no time.
C14_Witness ==
    \E t \in Trials :
        /\ Finished(t) /\ n_objects >= 2 /\ stats[t].sum_tsys > 0
        /\ \E k \in 1..Len(compLog[t]) : compLog[t][k] = doneLog[t][k].t

\* C15: with a_k the k-th duration the arrival process drew and s_k the k-th
\* the service process drew, the k-th record put carries A_k = a_1 + ... + a_k,
\* the k-th service completes at D_k = max(A_k, D_{k-1}) + s_k (D_0 = 0),
\* sum_tsys is the sum of D_k - A_k over the services completed, which at the end
\* of the trial are all n_objects, and a record is taken into service only when
\* the service before it has completed.
C15_Lindley ==
    \A t \in Trials :
        /\ \A k \in 1..Len(putLog[t]) : putLog[t][k].t = ArrTime(ADur(t), k)
        /\ \A k \in 1..Len(compLog[t]) : compLog[t][k] = DepTime(ADur(t), SDur(t), k)
        /\ stats[t].sum_tsys = LindleySum(ADur(t), SDur(t), Len(compLog[t]))
        /\ Finished(t) => Len(compLog[t]) = n_objects
        /\ Len(getLog[t]) <= Len(compLog[t]) + 1

\* A trial has ended in which one customer waited for the server and the server
\* once waited for a customer.
C15_Witness ==
    \E t \in Trials :
        /\ Finished(t) /\ n_objects >= 3
        /\ \E k \in 2..n_objects : compLog[t][k - 1] > putLog[t][k].t
        /\ \E k \in 2..n_objects : compLog[t][k - 1] < putLog[t][k].t

\* C16: once env.run() has returned, the arrival process has ended after exactly
\* n_objects puts, the store is empty, no event is pending, and the service
\* process is suspended in store.get(), its get event still waiting; the service
\* process never ends.
C16_ServiceOrphaned ==
    \A t \in Trials :
        /\ spc[t] \in {"new", "get", "timeout"}
        /\ Finished(t) =>
              /\ apc[t] = "done" /\ iter[t] = n_objects /\ Len(putLog[t]) = n_objects
              /\ items[t] = <<>>
              /\ queue[t] = {} /\ cbs[t] = <<>>
              /\ spc[t] = "get" /\ get_queue[t] = <<"service">> /\ running[t] = {}

C16_Witness ==
    \E t \in Trials :
        tpc[t] = "returned" /\ n_objects >= 2 /\ get_queue[t] = <<"service">>

\* The service process waits in store.get_queue.
Waiting(t) == get_queue[t] # <<>>

\* A put event is pending, or its callback Store._trigger_get is about to run.
WakePending(t) ==
    \/ \E e \in queue[t] : e.kind = "StorePut"
    \/ cbs[t] # <<>> /\ Head(cbs[t]) = "_trigger_get"

\* C17: store.get() returns to the service process only a record that was put
\* and not yet returned, the oldest one; while the service process waits and a
\* record is in the store, the wake-up by its put is on its way; and a waiting
\* get is triggered only by the callback of a put event, with the record it put.
C17_NoLostWakeup ==
    [][\A t \in Trials :
          /\ (Waiting(t) /\ items[t] # <<>>) => WakePending(t)
          /\ (Waiting(t)' /\ items'[t] # <<>>) => WakePending(t)'
          /\ getLog'[t] # getLog[t] =>
                /\ Len(getLog'[t]) <= Len(putLog[t])
                /\ getLog'[t] = Append(getLog[t], putLog[t][Len(getLog'[t])])
          /\ (Waiting(t) /\ ~Waiting(t)') =>
                /\ cbs[t] # <<>> /\ Head(cbs[t]) = "_trigger_get"
                /\ items[t] # <<>>
                /\ \E e \in queue'[t] \ queue[t] :
                      e.kind = "StoreGet" /\ e.val = <<Head(items[t])>>]_vars

\* The service process waits on the empty store, then a record is put.
C17_Witness ==
    \E t \in Trials :
        /\ Waiting(t) /\ items[t] # <<>> /\ Len(getLog[t]) >= 1

\* C18: of the pending events with the same target time the one scheduled first
\* (the one with the least event id) is dispatched first.
C18_TieFifo ==
    [][\A t \in Trials :
          \A e \in queue[t] \ queue'[t] :
              \A f \in queue[t] : (f # e /\ f.time = e.time) => e.eid < f.eid]_vars

\* An arrival timer and a service timer are pending for the same time.
C18_Witness ==
    \E t \in Trials :
        \E e, f \in queue[t] :
            /\ e.kind = "Timeout" /\ f.kind = "Timeout"
            /\ e.proc = "arrival" /\ f.proc = "service"
            /\ e.time = f.time /\ e.time > 0

\* C19: stats['obj_cnt'] never decreases; it changes only by +1, in a step of the
\* service process resumed from its timer; and it always equals the number of
\* services completed.
C19_CountIsCompleted ==
    [][\A t \in Trials :
          /\ stats[t].obj_cnt = Len(compLog[t])
          /\ stats'[t].obj_cnt = Len(compLog'[t])
          /\ stats'[t].obj_cnt \in {stats[t].obj_cnt, stats[t].obj_cnt + 1}
          /\ stats'[t].obj_cnt # stats[t].obj_cnt =>
                (running[t] = {"service"} /\ spc[t] = "timeout")]_vars

\* One customer is completed, a second has been dequeued, a third has arrived.
C19_Witness ==
    \E t \in Trials :
        stats[t].obj_cnt = 1 /\ Len(getLog[t]) = 2 /\ Len(putLog[t]) = 3

\* The customers in service: 1 when the service process has taken a record out
\* of the store (its get event has succeeded) and has not completed it, else 0.
InService(t) == IF spc[t] # "new" /\ get_queue[t] = <<>> THEN 1 ELSE 0

\* C20: the number of puts equals the records in the store plus the customers
\* in service plus the completed count, and never exceeds n_objects.
C20_Conservation ==
    \A t \in Trials :
        /\ Len(putLog[t]) = Len(items[t]) + InService(t) + stats[t].obj_cnt
        /\ Len(putLog[t]) <= n_objects

\* One record in the store, one in service, one completed.
C20_Witness ==
    \E t \in Trials :
        Len(items[t]) = 1 /\ InService(t) = 1 /\ stats[t].obj_cnt = 1

====
